---- MODULE Spec2Model ----
(***************************************************************************)
(* Association metadata resolver and association handle of package rel     *)
(* (association.go).                                                       *)
(*                                                                         *)
(* Strings are sequences of one-character strings, so that len(), string   *)
(* concatenation, strings.Split and the snake-case conversion are computed *)
(* and not assumed.  A struct type is a record [name, index, fields]; a    *)
(* field's declared type is [wrap, elem]: the pointer/slice wrappers, outer *)
(* first, around the target struct type.                                   *)
(***************************************************************************)
EXTENDS Integers, Sequences, FiniteSets, TLC

VARIABLES
    rt,        \* the host struct type the calls of this run are about
    cache,     \* associationCache: associationKey -> associationData
    pc,        \* per caller: position inside extractAssociationData
    pkey,      \* per caller: field index of the call in progress or of the
               \* last call (any index before the first call)
    local,     \* per caller: assocData computed and not yet stored
    ret,       \* per caller: outcome of the last finished call
    rec,       \* the live host record a handle operates on
    assoc,     \* the handle built by newAssociation (or NoHandle)
    out,       \* outcome of the last handle operation
    done,      \* history: keys whose resolution has returned a descriptor
    failed     \* history: keys whose resolution has panicked

vars == <<rt, cache, pc, pkey, local, ret, rec, assoc, out, done, failed>>

\* ------------------------------------------------------------------ bounds
NumProcs == 2
MaxLen == 1

Procs == 1..NumProcs

\* --------------------------------------------------------------- constants
BelongsTo == 0
HasOne == 1
HasMany == 2
ManyToMany == 3

\* ----------------------------------------------------------------- strings
Empty == <<>>
S_id == <<"i", "d">>
S_uid == <<"_", "i", "d">>
S_true == <<"t", "r", "u", "e">>

IsUpper(c) == c \in {"A", "B", "R", "T", "U"}

ToLower(c) ==
    CASE c = "A" -> "a"
      [] c = "B" -> "b"
      [] c = "R" -> "r"
      [] c = "T" -> "t"
      [] c = "U" -> "u"
      [] OTHER -> c

\* snaker.CamelToSnake: a word starts at every upper-case letter after the
\* first character; the words are lower-cased and joined with "_".  (The
\* library's table of initialisms is left out: no name used here holds one.)
RECURSIVE SnakeFrom(_, _)
SnakeFrom(s, i) ==
    IF i > Len(s) THEN Empty
    ELSE (IF i > 1 /\ IsUpper(s[i]) THEN <<"_">> ELSE Empty)
         \o <<ToLower(s[i])>> \o SnakeFrom(s, i + 1)

CamelToSnake(s) == SnakeFrom(s, 1)

\* strings.Split(s, sep) for a one-character separator: always at least one
\* (possibly empty) part.
RECURSIVE SplitFrom(_, _, _, _)
SplitFrom(s, sep, i, cur) ==
    IF i > Len(s) THEN <<cur>>
    ELSE IF s[i] = sep THEN <<cur>> \o SplitFrom(s, sep, i + 1, Empty)
    ELSE SplitFrom(s, sep, i + 1, Append(cur, s[i]))

Split(s, sep) == SplitFrom(s, sep, 1, Empty)

\* reflect.StructTag.Get: the value of the key, "" when the key is absent.
TagGet(tag, key) == IF key \in DOMAIN tag THEN tag[key] ELSE Empty

\* -------------------------------------------------------------- reflection
Kind(t) == IF t.wrap = <<>> THEN "struct" ELSE Head(t.wrap)
Elem(t) == [t EXCEPT !.wrap = Tail(t.wrap)]

\* association.go:206-208: strip pointers and slices down to the struct type.
RECURSIVE Unwrap(_)
Unwrap(t) ==
    IF Kind(t) = "ptr" \/ Kind(t) = "slice" THEN Unwrap(Elem(t)) ELSE t

\* association.go:247: slice or pointer to slice.
IsSequence(t) ==
    Kind(t) = "slice" \/ (Kind(t) = "ptr" /\ Kind(Elem(t)) = "slice")

\* extractDocumentData(t, true).index: snake-case field name -> position.
DocIndex(t) == t.index

\* fieldName(sf): the column name of a struct field.
fieldName(sf) == sf.name

\* ---------------------------------------------------------------- resolver
\* Mutant: the cache is keyed by the host type alone.
associationKey_TypeOnly(t, index) == [rt |-> t, index |-> 0]

\* association.go:183-186
associationKey(t, index) == [rt |-> t, index |-> index]

getAssocField(tag, field) ==
    LET fields == Split(TagGet(tag, field), ":")
    IN  IF Len(fields) = 2 THEN <<fields[1], fields[2]>>
        ELSE <<fields[1], Empty>>

\* Mutant: the two through columns are named after the wrong types.
GuessKeys_Swapped(t, ft, fName, through, k) ==
    IF k.ref = Empty \/ k.fk = Empty
    THEN IF through # Empty
         THEN [ref |-> S_id, fk |-> S_id,
               refThrough |-> CamelToSnake(ft.name) \o S_uid,
               fkThrough |-> CamelToSnake(t.name) \o S_uid]
         ELSE IF (fName \o S_uid) \in DOMAIN DocIndex(t)
         THEN [k EXCEPT !.ref = fName \o S_uid, !.fk = S_id]
         ELSE [k EXCEPT !.ref = S_id, !.fk = CamelToSnake(t.name) \o S_uid]
    ELSE k

\* association.go:215-230: guess ref and fk if not defined.
GuessKeys(t, ft, fName, through, k) ==
    IF k.ref = Empty \/ k.fk = Empty
    THEN IF through # Empty
         THEN [ref |-> S_id, fk |-> S_id,
               refThrough |-> CamelToSnake(t.name) \o S_uid,
               fkThrough |-> CamelToSnake(ft.name) \o S_uid]
         ELSE IF (fName \o S_uid) \in DOMAIN DocIndex(t)
         THEN [k EXCEPT !.ref = fName \o S_uid, !.fk = S_id]
         ELSE [k EXCEPT !.ref = S_id, !.fk = CamelToSnake(t.name) \o S_uid]
    ELSE k

\* Mutant: the length comparison is reversed.
GuessType_Reversed(sf, through, k, d) ==
    IF IsSequence(sf.type)
    THEN IF through # Empty
         THEN [d EXCEPT !.typ = ManyToMany,
                        !.referenceThrough = k.refThrough,
                        !.foreignThrough = k.fkThrough,
                        !.through = through]
         ELSE [d EXCEPT !.typ = HasMany]
    ELSE IF Len(d.referenceField) < Len(d.foreignField)
         THEN [d EXCEPT !.typ = BelongsTo]
         ELSE [d EXCEPT !.typ = HasOne]

\* association.go:246-262: guess assoc type.
GuessType(sf, through, k, d) ==
    IF IsSequence(sf.type)
    THEN IF through # Empty
         THEN [d EXCEPT !.typ = ManyToMany,
                        !.referenceThrough = k.refThrough,
                        !.foreignThrough = k.fkThrough,
                        !.through = through]
         ELSE [d EXCEPT !.typ = HasMany]
    ELSE IF Len(d.referenceField) > Len(d.foreignField)
         THEN [d EXCEPT !.typ = BelongsTo]
         ELSE [d EXCEPT !.typ = HasOne]

\* association.go:200-203: the descriptor before inference (Go zero values).
NewAssocData(sf) ==
    [typ |-> 0, targetIndex |-> sf.index,
     referenceField |-> Empty, referenceIndex |-> 0, referenceThrough |-> Empty,
     foreignField |-> Empty, foreignIndex |-> 0, foreignThrough |-> Empty,
     through |-> Empty, autosave |-> (TagGet(sf.tag, "autosave") = S_true)]

\* Go map lookup "id, exist := m[name]": the zero value when absent.
MapLookup(m, name) ==
    IF name \in DOMAIN m THEN [id |-> m[name], exist |-> TRUE]
    ELSE [id |-> 0, exist |-> FALSE]

\* association.go:232: the reference field is not in the host's index.
RefMissing(l) == ~l.exist

\* Mutant: the foreign key check is left out.
FkMissing_Never(l) == FALSE

\* association.go:239: the foreign key field is not in the target's index.
FkMissing(l) == ~l.exist

\* association.go:193-262: the inference between the cache load and the
\* cache store.  panic is "" when it returns a descriptor.
InferAssociationData(t, index) ==
    LET sf == t.fields[index]
        r == getAssocField(sf.tag, "ref")
        f == getAssocField(sf.tag, "fk")
        through == TagGet(sf.tag, "through")
        fName == fieldName(sf)
        ft == Unwrap(sf.type)
        refDocData == DocIndex(t)
        fkDocData == DocIndex(ft.elem)
        k == GuessKeys(t, ft.elem, fName, through,
                       [ref |-> r[1], refThrough |-> r[2],
                        fk |-> f[1], fkThrough |-> f[2]])
        d0 == NewAssocData(sf)
        rl == MapLookup(refDocData, k.ref)
        fl == MapLookup(fkDocData, k.fk)
    IN  IF RefMissing(rl)
        THEN [panic |-> "references", field |-> k.ref]
        ELSE IF FkMissing(fl)
        THEN [panic |-> "foreign_key", field |-> k.fk]
        ELSE [panic |-> "",
              data |-> GuessType(sf, through, k,
                         [d0 EXCEPT !.referenceIndex = rl.id,
                                    !.referenceField = k.ref,
                                    !.foreignIndex = fl.id,
                                    !.foreignField = k.fk])]

\* Mutant: a store drops every other entry.
MapStore_Replace(m, key, val) == [x \in {key} |-> val]

\* sync.Map.Store
MapStore(m, key, val) ==
    [x \in DOMAIN m \cup {key} |-> IF x = key THEN val ELSE m[x]]

NoRet == [kind |-> "none"]
NoData == [kind |-> "none"]

\* association.go:181-191: the call starts; the cache load hits or misses.
Load(p, i) ==
    /\ pc[p] = "idle"
    /\ i \in DOMAIN rt.fields
    /\ pkey' = [pkey EXCEPT ![p] = i]
    /\ LET key == associationKey(rt, i)
       IN  IF key \in DOMAIN cache
           THEN /\ ret' = [ret EXCEPT ![p] = [kind |-> "hit", data |-> cache[key]]]
                /\ pc' = pc
           ELSE /\ ret' = [ret EXCEPT ![p] = NoRet]
                /\ pc' = [pc EXCEPT ![p] = "infer"]
    /\ UNCHANGED <<rt, cache, local, rec, assoc, out, done, failed>>

\* association.go:193-262: the inference; it panics or has a descriptor.
Infer(p) ==
    /\ pc[p] = "infer"
    /\ LET res == InferAssociationData(rt, pkey[p])
       IN  IF res.panic # ""
           THEN /\ ret' = [ret EXCEPT ![p] = [kind |-> "panic", msg |-> res.panic,
                                              field |-> res.field]]
                /\ pc' = [pc EXCEPT ![p] = "idle"]
                /\ failed' = failed \cup {associationKey(rt, pkey[p])}
                /\ local' = local
           ELSE /\ local' = [local EXCEPT ![p] = res.data]
                /\ pc' = [pc EXCEPT ![p] = "store"]
                /\ ret' = ret
                /\ failed' = failed
    /\ UNCHANGED <<rt, cache, pkey, rec, assoc, out, done>>

\* association.go:264-266: the cache store and the return.
Store(p) ==
    /\ pc[p] = "store"
    /\ cache' = MapStore(cache, associationKey(rt, pkey[p]), local[p])
    /\ ret' = [ret EXCEPT ![p] = [kind |-> "stored", data |-> local[p]]]
    /\ local' = [local EXCEPT ![p] = NoData]
    /\ pc' = [pc EXCEPT ![p] = "idle"]
    /\ done' = done \cup {associationKey(rt, pkey[p])}
    /\ UNCHANGED <<rt, pkey, rec, assoc, out, failed>>

\* ------------------------------------------------------------ input types
S_a == <<"a">>
S_b == <<"b">>
S_a_id == <<"a", "_", "i", "d">>
S_u_id == <<"u", "_", "i", "d">>
S_ur_t_id == <<"u", "r", "_", "t", "_", "i", "d">>
S_zz == <<"z", "z">>
S_t == <<"t">>

StructType(name, index) == [name |-> name, index |-> index, fields |-> <<>>]

\* Target record types: name and field index.
Targets ==
    { StructType(<<"A">>, S_id :> 0),
      StructType(<<"A", "b">>, (S_id :> 0) @@ (S_u_id :> 1)),
      StructType(<<"A", "b", "T">>, (S_id :> 0) @@ (S_ur_t_id :> 1)),
      StructType(<<"A">>, S_u_id :> 0) }

Wraps == { <<>>, <<"ptr">>, <<"slice">>, <<"ptr", "slice">>, <<"slice", "ptr">> }

RefTags ==
    { Empty, S_id, S_zz, S_id \o <<":">> \o S_zz,
      S_id \o <<":">> \o S_zz \o <<":">> \o S_t }
FkTags == { Empty, S_u_id, S_id \o <<":">> \o S_t }
ThroughTags == { Empty, S_t }
AutosaveTags == { Empty, S_true }

Tags == [ref : RefTags, fk : FkTags, through : ThroughTags, autosave : AutosaveTags]

\* A struct field at position i of the host struct.
StructField(name, i, wrap, target, tag) ==
    [name |-> name, index |-> <<i>>, type |-> [wrap |-> wrap, elem |-> target],
     tag |-> tag]

HostNames == { <<"U">>, <<"U", "r", "T">> }
HostCols == { S_id :> 0, (S_id :> 0) @@ (S_a_id :> 1), S_a_id :> 1 }

\* The host type: its columns, then its association fields.
HostType(name, cols, fields) ==
    [name |-> name,
     index |-> cols @@ [n \in {fields[i].name : i \in DOMAIN fields} |->
                         CHOOSE i \in DOMAIN fields : fields[i].name = n],
     fields |-> fields]

NoHandle == [kind |-> "none"]
NoRec == [kind |-> "none"]
NoOut == [kind |-> "none", op |-> "none"]

ResolverInit ==
    /\ cache = <<>>
    /\ pc = [p \in Procs |-> "idle"]
    /\ pkey = [p \in Procs |-> CHOOSE i \in DOMAIN rt.fields : TRUE]
    /\ local = [p \in Procs |-> NoData]
    /\ ret = [p \in Procs |-> NoRet]
    /\ rec = NoRec
    /\ assoc = NoHandle
    /\ out = NoOut
    /\ done = {}
    /\ failed = {}

\* One association field with every combination of declared type, tags,
\* target type and host columns.
InitInfer ==
    /\ \E name \in HostNames, cols \in HostCols, wrap \in Wraps,
          target \in Targets, tag \in Tags :
          rt = HostType(name, cols, 2 :> StructField(S_a, 2, wrap, target, tag))
    /\ ResolverInit

Next ==
    \/ \E p \in Procs, i \in DOMAIN rt.fields : Load(p, i)
    \/ \E p \in Procs : Infer(p)
    \/ \E p \in Procs : Store(p)

SpecInfer == InitInfer /\ [][Next]_vars

\* A host type with two association fields, each from a short list of
\* configurations, for the runs with concurrent callers.
NoTag == [ref |-> Empty, fk |-> Empty, through |-> Empty, autosave |-> Empty]

FieldCfgs ==
    { [wrap |-> <<>>, target |-> StructType(<<"A">>, S_id :> 0), tag |-> NoTag],
      [wrap |-> <<"slice">>,
       target |-> StructType(<<"A", "b">>, (S_id :> 0) @@ (S_u_id :> 1)),
       tag |-> NoTag],
      [wrap |-> <<"slice", "ptr">>, target |-> StructType(<<"A">>, S_id :> 0),
       tag |-> [NoTag EXCEPT !.through = S_t]],
      [wrap |-> <<"ptr">>,
       target |-> StructType(<<"A", "b">>, (S_id :> 0) @@ (S_u_id :> 1)),
       tag |-> [NoTag EXCEPT !.ref = S_zz, !.fk = S_u_id]],
      [wrap |-> <<"ptr">>,
       target |-> StructType(<<"A", "b">>, (S_id :> 0) @@ (S_u_id :> 1)),
       tag |-> [NoTag EXCEPT !.ref = S_id, !.fk = S_u_id, !.autosave = S_true]] }

Init ==
    /\ \E name \in HostNames, cols \in {S_id :> 0, (S_id :> 0) @@ (S_a_id :> 1)},
          a \in FieldCfgs, b \in FieldCfgs :
          rt = HostType(name, cols,
                 (2 :> StructField(S_a, 2, a.wrap, a.target, a.tag))
                 @@ (3 :> StructField(S_b, 3, b.wrap, b.target, b.tag)))
    /\ ResolverInit

Spec == Init /\ [][Next]_vars

\* ------------------------------------------------------------------ values
\* A reflect.Value of a field: a scalar is an integer, a struct is its
\* fields by position, a pointer is nil or holds its element, a slice is nil
\* or holds its elements.
Positions(t) == {t.index[n] : n \in DOMAIN t.index}

NilPtr == [kind |-> "ptr", nil |-> TRUE]
PtrTo(v) == [kind |-> "ptr", nil |-> FALSE, elem |-> v]
NilSlice == [kind |-> "slice", nil |-> TRUE, elems |-> <<>>]
SliceOf(elems) == [kind |-> "slice", nil |-> FALSE, elems |-> elems]
StructOf(f) == [kind |-> "struct", f |-> f]

\* reflect.Zero(t)
Zero(t) ==
    IF Kind(t) = "ptr" THEN NilPtr
    ELSE IF Kind(t) = "slice" THEN NilSlice
    ELSE StructOf([i \in Positions(t.elem) |-> 0])

\* Every value of type t whose slices hold at most MaxLen elements.
RECURSIVE Values(_)
Values(t) ==
    IF Kind(t) = "ptr" THEN {NilPtr} \cup {PtrTo(v) : v \in Values(Elem(t))}
    ELSE IF Kind(t) = "slice"
    THEN {NilSlice} \cup
         {SliceOf(e) : e \in UNION {[1..n -> Values(Elem(t))] : n \in 0..MaxLen}}
    ELSE {StructOf(f) : f \in [Positions(t.elem) -> 0..1]}

\* Mutant: the pointer is set, the slice behind it is left nil.
NewCollectionPtr_NilSlice(t) == PtrTo(NilSlice)

\* association.go:94-95: reflect.New and an empty slice made behind it.
NewCollectionPtr(t) == PtrTo(SliceOf(<<>>))

\* association.go:66: reflect.New(rv.Type().Elem())
NewDocumentPtr(t) == PtrTo(Zero(Elem(t)))

\* association.go:102: reflect.MakeSlice(rv.Type(), 0, 0)
MakeSlice(t) == SliceOf(<<>>)

\* Document.Persisted(): the record's primary key ("id") is not zero.
Persisted(doc, t) == doc.f[t.index[S_id]] # 0

\* isDeepZero(reflect.Indirect(rv), 1): an unset pointer, a nil slice or a
\* struct whose fields are all zero.
isDeepZero(v) ==
    IF v.kind = "ptr" THEN TRUE
    ELSE IF v.kind = "slice" THEN v.nil
    ELSE \A i \in DOMAIN v.f : v.f[i] = 0

\* reflect.Indirect(rv): the element of a non-nil pointer; the invalid Value
\* of a nil pointer is left as the nil pointer.
Indirect(v) == IF v.kind = "ptr" /\ ~v.nil THEN v.elem ELSE v

\* ------------------------------------------------------------------ handle
Target == rec[assoc.data.targetIndex[1]]
TargetType == rt.fields[assoc.data.targetIndex[1]].type
HasHandle == assoc # NoHandle

Ok(op, fields) == [kind |-> "ok", op |-> op, before |-> rec] @@ fields
Panic(op) == [kind |-> "panic", op |-> op, before |-> rec]

\* association.go:170-179 with 181-267: newAssociation resolves the
\* descriptor (cache hit, or inference and store) and pairs it with the record.
newAssociation(i) ==
    /\ i \in DOMAIN rt.fields
    /\ LET key == associationKey(rt, i)
           res == InferAssociationData(rt, i)
       IN  IF key \in DOMAIN cache
           THEN /\ assoc' = [data |-> cache[key]]
                /\ out' = Ok("newAssociation", [hit |-> TRUE])
                /\ UNCHANGED <<cache, done, failed>>
           ELSE IF res.panic # ""
           THEN /\ assoc' = NoHandle
                /\ out' = Panic("newAssociation")
                /\ failed' = failed \cup {key}
                /\ UNCHANGED <<cache, done>>
           ELSE /\ cache' = MapStore(cache, key, res.data)
                /\ assoc' = [data |-> res.data]
                /\ out' = Ok("newAssociation", [hit |-> FALSE])
                /\ done' = done \cup {key}
                /\ failed' = failed
    /\ UNCHANGED <<rt, pc, pkey, local, ret, rec>>

\* association.go:52-54
Type ==
    /\ HasHandle
    /\ out' = Ok("Type", [value |-> assoc.data.typ])
    /\ UNCHANGED <<rt, cache, pc, pkey, local, ret, rec, assoc, done, failed>>

\* association.go:58-82, on a record or pointer-to-record field.
Document ==
    /\ HasHandle
    /\ ~IsSequence(TargetType)
    /\ IF Target.kind = "ptr"
       THEN IF Target.nil
            THEN /\ rec' = [rec EXCEPT ![assoc.data.targetIndex[1]] =
                                          NewDocumentPtr(TargetType)]
                 /\ out' = Ok("Document", [loaded |-> FALSE])
            ELSE /\ out' = Ok("Document",
                              [loaded |-> Persisted(Target.elem, TargetType.elem)])
                 /\ rec' = rec
       ELSE /\ out' = Ok("Document",
                         [loaded |-> Persisted(Target, TargetType.elem)])
            /\ rec' = rec
    /\ UNCHANGED <<rt, cache, pc, pkey, local, ret, assoc, done, failed>>

\* association.go:86-106, on a slice or pointer-to-slice field.
Collection ==
    /\ HasHandle
    /\ IsSequence(TargetType)
    /\ LET loaded == ~Target.nil
       IN  /\ out' = Ok("Collection", [loaded |-> loaded])
           /\ IF Target.kind = "ptr"
              THEN IF ~loaded
                   THEN rec' = [rec EXCEPT ![assoc.data.targetIndex[1]] =
                                              NewCollectionPtr(TargetType)]
                   ELSE rec' = rec
              ELSE IF ~loaded
                   THEN rec' = [rec EXCEPT ![assoc.data.targetIndex[1]] =
                                              MakeSlice(TargetType)]
                   ELSE rec' = rec
    /\ UNCHANGED <<rt, cache, pc, pkey, local, ret, assoc, done, failed>>

\* association.go:109-115
IsZero ==
    /\ HasHandle
    /\ out' = Ok("IsZero", [value |-> isDeepZero(Indirect(Target))])
    /\ UNCHANGED <<rt, cache, pc, pkey, local, ret, rec, assoc, done, failed>>

\* association.go:128-130
ReferenceValue ==
    /\ HasHandle
    /\ out' = Ok("ReferenceValue", [value |-> rec[assoc.data.referenceIndex]])
    /\ UNCHANGED <<rt, cache, pc, pkey, local, ret, rec, assoc, done, failed>>

\* association.go:144-158: rv.Elem() of a nil pointer is the invalid Value,
\* and Field on it panics.
ForeignValue ==
    /\ HasHandle
    /\ IF assoc.data.typ = HasMany \/ assoc.data.typ = ManyToMany
       THEN out' = Panic("ForeignValue")
       ELSE IF Target.kind = "ptr"
            THEN IF Target.nil
                 THEN out' = Panic("ForeignValue")
                 ELSE out' = Ok("ForeignValue",
                                [value |-> Target.elem.f[assoc.data.foreignIndex]])
            ELSE out' = Ok("ForeignValue",
                           [value |-> Target.f[assoc.data.foreignIndex]])
    /\ UNCHANGED <<rt, cache, pc, pkey, local, ret, rec, assoc, done, failed>>

\* Target record types with a primary key, for records that are wrapped.
HandleTargets == {t \in Targets : S_id \in DOMAIN t.index}

HandleTags ==
    { NoTag, [NoTag EXCEPT !.through = S_t],
      [NoTag EXCEPT !.ref = S_id, !.fk = S_u_id] }

\* Every record of the host type: its columns and its association field.
Records(t) ==
    {c @@ (2 :> v) : c \in [Positions(t) \ {2} -> 0..1],
                     v \in Values(t.fields[2].type)}

\* One host type with one association field, and any record of it.
InitHandle ==
    /\ \E name \in HostNames, cols \in HostCols, wrap \in Wraps,
          target \in HandleTargets, tag \in HandleTags :
          rt = HostType(name, cols, 2 :> StructField(S_a, 2, wrap, target, tag))
    /\ rec \in Records(rt)
    /\ cache = <<>>
    /\ pc = [p \in Procs |-> "idle"]
    /\ pkey = [p \in Procs |-> CHOOSE i \in DOMAIN rt.fields : TRUE]
    /\ local = [p \in Procs |-> NoData]
    /\ ret = [p \in Procs |-> NoRet]
    /\ assoc = NoHandle
    /\ out = NoOut
    /\ done = {}
    /\ failed = {}

NextHandle ==
    \/ \E i \in DOMAIN rt.fields : newAssociation(i)
    \/ Type
    \/ Document
    \/ Collection
    \/ IsZero
    \/ ReferenceValue
    \/ ForeignValue

SpecHandle == InitHandle /\ [][NextHandle]_vars

\* ------------------------------------------------------------------ claims
KeyOf(p) == associationKey(rt, pkey[p])
Returned(p) == pc[p] = "idle" /\ ret[p].kind \in {"hit", "stored"}
FieldOf(p) == rt.fields[pkey[p]]
RefTagField(sf) == getAssocField(sf.tag, "ref")[1]
FkTagField(sf) == getAssocField(sf.tag, "fk")[1]

\* C1: under any interleaving of calls for the same key, every call returns
\* the same descriptor, and every store to a key that is already cached
\* writes the value that is already there, so a cached value never changes.
C1_SameDescriptor ==
    \A p \in Procs :
        /\ (pc[p] = "store" /\ KeyOf(p) \in DOMAIN cache)
              => local[p] = cache[KeyOf(p)]
        /\ Returned(p)
              => KeyOf(p) \in DOMAIN cache /\ cache[KeyOf(p)] = ret[p].data
        /\ \A q \in Procs :
              (Returned(p) /\ Returned(q) /\ pkey[p] = pkey[q])
                => ret[p].data = ret[q].data

\* Two callers missed the cache for the same key; one has stored and
\* returned, the other is about to store its own copy.
C1_Witness ==
    \E p, q \in Procs :
        /\ p # q /\ pkey[p] = pkey[q]
        /\ pc[p] = "store" /\ pc[q] = "idle" /\ ret[q].kind = "stored"

\* C2: once a resolution of a key has returned a descriptor, every later
\* resolution of that key is a cache hit (no inference, no store, the stored
\* descriptor is returned), and no step removes or changes a cache entry.
C2_CacheHit ==
    [][ /\ \A k \in DOMAIN cache : k \in DOMAIN cache' /\ cache'[k] = cache[k]
        /\ \A p \in Procs, i \in DOMAIN rt.fields :
              (associationKey(rt, i) \in done /\ Load(p, i))
                => /\ pc'[p] = "idle"
                   /\ associationKey(rt, i) \in DOMAIN cache
                   /\ ret'[p] = [kind |-> "hit",
                                 data |-> cache[associationKey(rt, i)]]
                   /\ cache' = cache
                   /\ local' = local ]_vars

\* A cache hit while the cache also holds the descriptor of another key.
C2_Witness ==
    \E p \in Procs :
        /\ Returned(p) /\ ret[p].kind = "hit"
        /\ \E k \in DOMAIN cache : k # KeyOf(p)

\* C10: a resolution that panics leaves the cache unchanged; the cache only
\* holds descriptors whose reference field is in the host's index and whose
\* foreign field is in the target's index; a key that has failed is never
\* cached, and a later resolution of it never gets past the inference.
C10_FailureStoresNothing ==
    [][ /\ \A p \in Procs :
              (pc[p] = "infer" /\ pc'[p] = "idle")
                => /\ ret'[p].kind = "panic"
                   /\ cache' = cache
        /\ \A k \in DOMAIN cache' :
              /\ cache'[k].referenceField \in DOMAIN DocIndex(k.rt)
              /\ cache'[k].foreignField
                    \in DOMAIN DocIndex(Unwrap(k.rt.fields[k.index].type).elem)
        /\ \A k \in failed' : k \notin DOMAIN cache'
        /\ \A p \in Procs :
              associationKey(rt', pkey'[p]) \in failed'
                => /\ pc'[p] # "store"
                   /\ ret'[p].kind \in {"none", "panic"} ]_vars

\* The key has failed and every caller is running its inference again.
C10_Witness ==
    /\ failed # {}
    /\ \A p \in Procs : pc[p] = "infer" /\ KeyOf(p) \in failed

\* C3: a field whose ref tag names a field that is not in the host's index
\* never resolves to a descriptor, whatever its other tags are.
C3_AbsentRefPanics ==
    \A p \in Procs :
        (Returned(p) \/ pc[p] = "store")
          => ~(/\ RefTagField(FieldOf(p)) # Empty
               /\ RefTagField(FieldOf(p)) \notin DOMAIN DocIndex(rt))

ThroughDefaults(p) ==
    /\ ret[p].data.referenceThrough = CamelToSnake(rt.name) \o S_uid
    /\ ret[p].data.foreignThrough
         = CamelToSnake(Unwrap(FieldOf(p).type).elem.name) \o S_uid

IsManyToManyField(p) ==
    /\ Returned(p)
    /\ IsSequence(FieldOf(p).type)
    /\ TagGet(FieldOf(p).tag, "through") # Empty

\* C4 as stated: every resolved sequence field with a through tag T is
\* ManyToMany with through T and the two default through columns.
C4_AlwaysDefaults ==
    \A p \in Procs :
        IsManyToManyField(p)
          => /\ ret[p].data.typ = ManyToMany
             /\ ret[p].data.through = TagGet(FieldOf(p).tag, "through")
             /\ ThroughDefaults(p)

\* C4 amended: every resolved sequence field with a through tag T is
\* ManyToMany with through T; the through columns are the defaults when the
\* ref tag or the fk tag names no field, and otherwise they are the through
\* parts of the ref and fk tags.
C4_DefaultsUnlessTagged ==
    \A p \in Procs :
        IsManyToManyField(p)
          => /\ ret[p].data.typ = ManyToMany
             /\ ret[p].data.through = TagGet(FieldOf(p).tag, "through")
             /\ IF RefTagField(FieldOf(p)) = Empty \/ FkTagField(FieldOf(p)) = Empty
                THEN ThroughDefaults(p)
                ELSE /\ ret[p].data.referenceThrough
                          = getAssocField(FieldOf(p).tag, "ref")[2]
                     /\ ret[p].data.foreignThrough
                          = getAssocField(FieldOf(p).tag, "fk")[2]

\* A many-to-many descriptor with default through columns, for a host and a
\* target whose names have more than one word.
C4_Witness ==
    \E p \in Procs :
        /\ IsManyToManyField(p)
        /\ RefTagField(FieldOf(p)) = Empty
        /\ ret[p].data.referenceThrough = S_ur_t_id
        /\ ret[p].data.foreignThrough = <<"a", "b", "_", "t">> \o S_uid

IsUntaggedSingle(p) ==
    /\ Returned(p)
    /\ ~IsSequence(FieldOf(p).type)
    /\ TagGet(FieldOf(p).tag, "ref") = Empty
    /\ TagGet(FieldOf(p).tag, "fk") = Empty

ConventionKeys(p) ==
    IF (fieldName(FieldOf(p)) \o S_uid) \in DOMAIN DocIndex(rt)
    THEN /\ ret[p].data.typ = BelongsTo
         /\ ret[p].data.referenceField = fieldName(FieldOf(p)) \o S_uid
         /\ ret[p].data.foreignField = S_id
    ELSE /\ ret[p].data.typ = HasOne
         /\ ret[p].data.referenceField = S_id
         /\ ret[p].data.foreignField = CamelToSnake(rt.name) \o S_uid

\* C5 as stated: every resolved single-record field without ref and fk tags
\* is BelongsTo (<field>_id, id) when the host has <field>_id, and HasOne
\* (id, <host>_id) when it has not.
C5_Convention ==
    \A p \in Procs : IsUntaggedSingle(p) => ConventionKeys(p)

\* C5 amended: the same, for fields that have no through tag either.
C5_ConventionNoThrough ==
    \A p \in Procs :
        (IsUntaggedSingle(p) /\ TagGet(FieldOf(p).tag, "through") = Empty)
          => ConventionKeys(p)

\* A belongs-to descriptor inferred from the <field>_id column.
C5_Witness ==
    \E p \in Procs :
        /\ IsUntaggedSingle(p)
        /\ TagGet(FieldOf(p).tag, "through") = Empty
        /\ ret[p].data.typ = BelongsTo
        /\ ret[p].data.referenceField = S_a_id

IsMany == assoc.data.typ = HasMany \/ assoc.data.typ = ManyToMany
TargetPos == assoc.data.targetIndex[1]

\* The slice of a sequence field is nil, directly or behind its pointer.
SeqIsNil(v) == IF v.kind = "ptr" THEN v.nil \/ v.elem.nil ELSE v.nil

\* C6: ForeignValue on a HasMany or ManyToMany handle panics and changes
\* neither the record nor the cache; on a BelongsTo or HasOne handle it
\* returns the target record's field at the foreign key position.
C6_ForeignValue ==
    [][ ForeignValue
          => IF IsMany
             THEN out'.kind = "panic" /\ rec' = rec /\ cache' = cache
             ELSE /\ out'.kind = "ok"
                  /\ out'.value = Indirect(Target).f[assoc.data.foreignIndex]
      ]_vars

\* C7: no handle operation panics, except a failed resolution and
\* ForeignValue on a HasMany or ManyToMany handle.
C7_Total ==
    out.kind = "panic"
      => \/ out.op = "newAssociation"
         \/ out.op = "ForeignValue" /\ IsMany

\* C8: Document and Collection on a nil pointer field return isLoaded =
\* false and leave the field pointing at a zero record, or at an empty
\* non-nil sequence; the other fields of the record are as before.
C8_AllocatesZero ==
    (/\ out.op \in {"Document", "Collection"}
     /\ out.before[TargetPos].kind = "ptr"
     /\ out.before[TargetPos].nil)
      => /\ out.kind = "ok"
         /\ out.loaded = FALSE
         /\ rec[TargetPos].kind = "ptr"
         /\ ~rec[TargetPos].nil
         /\ IF out.op = "Document"
            THEN rec[TargetPos].elem
                   = StructOf([i \in Positions(TargetType.elem) |-> 0])
            ELSE /\ rec[TargetPos].elem.kind = "slice"
                 /\ ~rec[TargetPos].elem.nil
                 /\ Len(rec[TargetPos].elem.elems) = 0
         /\ \A j \in DOMAIN rec \ {TargetPos} : rec[j] = out.before[j]

\* Collection has just allocated the sequence of a nil pointer field.
C8_Witness ==
    /\ out.op = "Collection"
    /\ out.before[TargetPos] = NilPtr
    /\ rec[TargetPos] # NilPtr

\* C9: Collection returns isLoaded = true exactly when the sequence was not
\* nil before the call, also behind a non-nil pointer, and the sequence is
\* not nil after the call.
C9_LoadedIffNonNil ==
    out.op = "Collection"
      => /\ out.loaded = ~SeqIsNil(out.before[TargetPos])
         /\ ~SeqIsNil(rec[TargetPos])

====
